---- MODULE Spec2Model ----
(***************************************************************************)
(* A model of the reference counted rope of buffer/src/rope.rs: the tree   *)
(* (Leaf / Node with the cached leftn and leftnnl), concat, len, lenlines, *)
(* char_substr, char_slice, line_start, line_slice, insert, delete, and    *)
(* the two traversals RopeIter (str_iter / char_iter) and LineIter.        *)
(* A text is a sequence of units; a unit is "a" or the newline.            *)
(***************************************************************************)
EXTENDS Integers, Sequences, FiniteSets, TLC

VARIABLES rope, last, stack, curriter, mode, slice, yielded, finished

vars == <<rope, last, stack, curriter, mode, slice, yielded, finished>>

\* ---------------------------------------------------------------- bounds
MaxLen == 4          \* longest rope the editing operations may produce
MaxOperandLen == 1   \* longest rope passed as the other operand
MaxLine == 2         \* largest line index asked of line_start / line_slice
MaxIterLen == 4      \* longest rope str_iter / char_iter are started on
MaxLineIterLen == 3  \* longest rope line_iter is started on

NL == "\n"
Chars == {"a", NL}

Min(a, b) == IF a < b THEN a ELSE b

\* ------------------------------------------------ leaf storage (RcString)
rcs_len(rcs) == Len(rcs)

RECURSIVE rcs_lenlines(_)
rcs_lenlines(rcs) ==
    IF rcs = <<>> THEN 0
    ELSE (IF Head(rcs) = NL THEN 1 ELSE 0) + rcs_lenlines(Tail(rcs))

\* the units in [idx, min(idx+n, length))
rcs_substr(rcs, idx, n) == SubSeq(rcs, idx + 1, Min(idx + n, Len(rcs)))

rcs_str(rcs) == rcs

\* ------------------------------------------------------------- Rope, Node
Leaf(rcs) == [kind |-> "Leaf", rcs |-> rcs]

Node(leftn, leftnnl, left, right) ==
    [kind |-> "Node", leftn |-> leftn, leftnnl |-> leftnnl,
     left |-> left, right |-> right]

from(s) == Leaf(s)

RECURSIVE len(_)
len(self) ==
    IF self.kind = "Node" THEN self.leftn + len(self.right)
    ELSE rcs_len(self.rcs)

RECURSIVE lenlines(_)
lenlines(self) ==
    IF self.kind = "Node" THEN self.leftnnl + lenlines(self.right)
    ELSE rcs_lenlines(self.rcs)

\* concat without the zero length cases
concat_wrap(r1, r2) == Node(len(r1), lenlines(r1), r1, r2)

concat(r1, r2) ==
    IF len(r1) = 0 THEN r2
    ELSE IF len(r2) = 0 THEN r1
    ELSE Node(len(r1), lenlines(r1), r1, r2)

\* char_substr descending right without rebasing idx
RECURSIVE char_substr_norebase(_, _, _)
char_substr_norebase(self, idx, n) ==
    IF self.kind = "Leaf" THEN Leaf(rcs_substr(self.rcs, idx, n))
    ELSE IF idx >= self.leftn
         THEN char_substr_norebase(self.right, idx, n)
    ELSE IF idx + n <= self.leftn
         THEN char_substr_norebase(self.left, idx, n)
    ELSE concat(char_substr_norebase(self.left, idx, self.leftn),
                char_substr_norebase(self.right, 0, n - (self.leftn - idx)))

RECURSIVE char_substr(_, _, _)
char_substr(self, idx, n) ==
    IF self.kind = "Leaf" THEN Leaf(rcs_substr(self.rcs, idx, n))
    ELSE IF idx >= self.leftn
         THEN char_substr(self.right, idx - self.leftn, n)
    ELSE IF idx + n <= self.leftn
         THEN char_substr(self.left, idx, n)
    ELSE concat(char_substr(self.left, idx, self.leftn),
                char_substr(self.right, 0, n - (self.leftn - idx)))

\* ---------------------------------------------------------------- ranges
Unbounded == [kind |-> "Unbounded", b |-> 0]
Included(b) == [kind |-> "Included", b |-> b]
Excluded(b) == [kind |-> "Excluded", b |-> b]
Range(s, e) == [start |-> s, end |-> e]

char_slice_start(r) ==
    IF r.start.kind = "Included" THEN r.start.b
    ELSE IF r.start.kind = "Excluded" THEN r.start.b + 1
    ELSE 0

char_slice_len(self, r) ==
    IF r.end.kind = "Included" THEN (r.end.b - char_slice_start(r)) + 1
    ELSE IF r.end.kind = "Excluded" THEN r.end.b - char_slice_start(r)
    ELSE len(self) - char_slice_start(r)

char_slice(self, r) ==
    char_substr(self, char_slice_start(r), char_slice_len(self, r))

\* ---------------------------------------------------------- line indexing
\* the for loop of nth_line_idx: i is the position of the enumeration,
\* n the lines still to skip, r the last position visited
RECURSIVE nth_line_loop(_, _, _, _)
nth_line_loop(s, i, n, r) ==
    IF i >= Len(s) THEN r + 1
    ELSE IF n = 0 THEN i
    ELSE nth_line_loop(s, i + 1, IF s[i + 1] = NL THEN n - 1 ELSE n, i)

nth_line_idx(s, lnum) ==
    IF Len(s) = 0 THEN 0 ELSE nth_line_loop(s, 0, lnum, 0)

\* line_start going right as soon as lnum reaches leftnnl
RECURSIVE line_start_strict(_, _)
line_start_strict(self, lnum) ==
    IF self.kind = "Leaf" THEN nth_line_idx(rcs_str(self.rcs), lnum)
    ELSE IF lnum < self.leftnnl
         THEN line_start_strict(self.left, lnum)
    ELSE line_start_strict(self.right, lnum - self.leftnnl) + self.leftn

RECURSIVE line_start(_, _)
line_start(self, lnum) ==
    IF self.kind = "Leaf" THEN nth_line_idx(rcs_str(self.rcs), lnum)
    ELSE IF lnum <= self.leftnnl
         THEN line_start(self.left, lnum)
    ELSE line_start(self.right, lnum - self.leftnnl) + self.leftn

line_slice_start(self, r) ==
    IF r.start.kind = "Included" THEN line_start(self, r.start.b)
    ELSE IF r.start.kind = "Excluded" THEN line_start(self, r.start.b + 1)
    ELSE 0

\* the char range line_slice hands to char_slice
line_slice_range(self, r) ==
    IF r.end.kind = "Included"
    THEN Range(Included(line_slice_start(self, r)),
               Excluded(line_start(self, r.end.b + 1)))
    ELSE IF r.end.kind = "Excluded"
    THEN Range(Included(line_slice_start(self, r)),
               Excluded(line_start(self, r.end.b)))
    ELSE Range(Included(line_slice_start(self, r)), Unbounded)

line_slice(self, r) == char_slice(self, line_slice_range(self, r))

\* ---------------------------------------------------------------- editing
\* insert putting the inserted rope after the right slice in one branch
insert_misplaced(self, idx, rp) ==
    LET left == char_slice(self, Range(Unbounded, Excluded(idx)))
        right == char_slice(self, Range(Included(idx), Unbounded))
    IN IF len(left) > len(right)
       THEN concat(left, concat(right, rp))
       ELSE concat(concat(left, rp), right)

\* insert with the length comparison reversed
insert_reversed(self, idx, rp) ==
    LET left == char_slice(self, Range(Unbounded, Excluded(idx)))
        right == char_slice(self, Range(Included(idx), Unbounded))
    IN IF len(left) < len(right)
       THEN concat(left, concat(rp, right))
       ELSE concat(concat(left, rp), right)

insert(self, idx, rp) ==
    LET left == char_slice(self, Range(Unbounded, Excluded(idx)))
        right == char_slice(self, Range(Included(idx), Unbounded))
    IN IF len(left) > len(right)
       THEN concat(left, concat(rp, right))
       ELSE concat(concat(left, rp), right)

\* the outcome of delete: the rope returned, or a panic; slices counts the
\* char_slice calls made on the way
Returned(rp, k) == [status |-> "ok", rope |-> rp, slices |-> k]
Panicked == [status |-> "panic", rope |-> Leaf(<<>>), slices |-> 0]

\* delete keeping the unit at hi of an inclusive range
delete_keeps_hi(self, r) ==
    LET s == r.start
        e == r.end
    IN IF s.kind = "Unbounded" /\ e.kind = "Unbounded"
       THEN Returned(from(<<>>), 0)
       ELSE IF s.kind = "Unbounded" /\ e.kind = "Included"
       THEN Returned(char_slice(self, Range(Included(e.b + 1), Unbounded)), 1)
       ELSE IF s.kind = "Unbounded" /\ e.kind = "Excluded"
       THEN Returned(char_slice(self, Range(Included(e.b), Unbounded)), 1)
       ELSE IF s.kind = "Included" /\ e.kind = "Unbounded"
       THEN Returned(char_slice(self, Range(Unbounded, Excluded(s.b))), 1)
       ELSE IF s.kind = "Included" /\ e.kind = "Included"
       THEN Returned(
              concat(char_slice(self, Range(Unbounded, Excluded(s.b))),
                     char_slice(self, Range(Included(e.b), Unbounded))),
              2)
       ELSE IF s.kind = "Included" /\ e.kind = "Excluded"
       THEN Returned(
              concat(char_slice(self, Range(Unbounded, Excluded(s.b))),
                     char_slice(self, Range(Included(e.b), Unbounded))),
              2)
       ELSE Panicked

\* delete giving an excluded start with no end a meaning
delete_excluded(self, r) ==
    LET s == r.start
        e == r.end
    IN IF s.kind = "Unbounded" /\ e.kind = "Unbounded"
       THEN Returned(from(<<>>), 0)
       ELSE IF s.kind = "Unbounded" /\ e.kind = "Included"
       THEN Returned(char_slice(self, Range(Included(e.b + 1), Unbounded)), 1)
       ELSE IF s.kind = "Unbounded" /\ e.kind = "Excluded"
       THEN Returned(char_slice(self, Range(Included(e.b), Unbounded)), 1)
       ELSE IF s.kind = "Included" /\ e.kind = "Unbounded"
       THEN Returned(char_slice(self, Range(Unbounded, Excluded(s.b))), 1)
       ELSE IF s.kind = "Included" /\ e.kind = "Included"
       THEN Returned(
              concat(char_slice(self, Range(Unbounded, Excluded(s.b))),
                     char_slice(self, Range(Included(e.b + 1), Unbounded))),
              2)
       ELSE IF s.kind = "Included" /\ e.kind = "Excluded"
       THEN Returned(
              concat(char_slice(self, Range(Unbounded, Excluded(s.b))),
                     char_slice(self, Range(Included(e.b), Unbounded))),
              2)
       ELSE IF s.kind = "Excluded" /\ e.kind = "Unbounded"
       THEN Returned(char_slice(self, Range(Unbounded, Included(s.b))), 1)
       ELSE Panicked

delete(self, r) ==
    LET s == r.start
        e == r.end
    IN IF s.kind = "Unbounded" /\ e.kind = "Unbounded"
       THEN Returned(from(<<>>), 0)
       ELSE IF s.kind = "Unbounded" /\ e.kind = "Included"
       THEN Returned(char_slice(self, Range(Included(e.b + 1), Unbounded)), 1)
       ELSE IF s.kind = "Unbounded" /\ e.kind = "Excluded"
       THEN Returned(char_slice(self, Range(Included(e.b), Unbounded)), 1)
       ELSE IF s.kind = "Included" /\ e.kind = "Unbounded"
       THEN Returned(char_slice(self, Range(Unbounded, Excluded(s.b))), 1)
       ELSE IF s.kind = "Included" /\ e.kind = "Included"
       THEN Returned(
              concat(char_slice(self, Range(Unbounded, Excluded(s.b))),
                     char_slice(self, Range(Included(e.b + 1), Unbounded))),
              2)
       ELSE IF s.kind = "Included" /\ e.kind = "Excluded"
       THEN Returned(
              concat(char_slice(self, Range(Unbounded, Excluded(s.b))),
                     char_slice(self, Range(Included(e.b), Unbounded))),
              2)
       ELSE Panicked

\* ------------------------------------------- the calls char_substr makes
\* one record per call char_substr(self, idx, n) makes on a child or on the
\* leaf storage: which case made it, the arguments passed, the length of
\* the callee, and the caller's own leftn, idx and n
Call(case, cidx, cn, clen, leftn, idx, n) ==
    [case |-> case, idx |-> cidx, n |-> cn, len |-> clen,
     pleftn |-> leftn, pidx |-> idx, pn |-> n]

RECURSIVE char_substr_calls(_, _, _)
char_substr_calls(self, idx, n) ==
    IF self.kind = "Leaf"
    THEN {Call("leaf", idx, n, rcs_len(self.rcs), 0, idx, n)}
    ELSE IF idx >= self.leftn
    THEN {Call("right", idx - self.leftn, n, len(self.right),
               self.leftn, idx, n)}
         \cup char_substr_calls(self.right, idx - self.leftn, n)
    ELSE IF idx + n <= self.leftn
    THEN {Call("left", idx, n, len(self.left), self.leftn, idx, n)}
         \cup char_substr_calls(self.left, idx, n)
    ELSE {Call("straddle_left", idx, self.leftn, len(self.left),
               self.leftn, idx, n),
          Call("straddle_right", 0, n - (self.leftn - idx), len(self.right),
               self.leftn, idx, n)}
         \cup char_substr_calls(self.left, idx, self.leftn)
         \cup char_substr_calls(self.right, 0, n - (self.leftn - idx))

\* ------------------------------------------------------------- traversals
None == [some |-> FALSE, rest |-> <<>>]

\* T::from(l): StrIter holds the whole text once, CharIter its units
leaf_iter_from(md, l) ==
    IF md = "str" THEN [some |-> TRUE, rest |-> <<rcs_str(l)>>]
    ELSE [some |-> TRUE, rest |-> rcs_str(l)]

NoItem(stk, cur) ==
    [stack |-> stk, curriter |-> cur, some |-> FALSE, item |-> <<>>]
Item(stk, cur, x) ==
    [stack |-> stk, curriter |-> cur, some |-> TRUE, item |-> x]

\* RopeIter::next pushing the left child before the right one
RECURSIVE rope_iter_next_swapped(_, _, _)
rope_iter_next_swapped(stk, cur, md) ==
    IF cur.some /\ cur.rest # <<>>
    THEN Item(stk, [some |-> TRUE, rest |-> Tail(cur.rest)], Head(cur.rest))
    ELSE IF stk = <<>> THEN NoItem(stk, cur)
    ELSE LET top == stk[Len(stk)]
             popped == SubSeq(stk, 1, Len(stk) - 1)
         IN IF top.kind = "Node"
            THEN rope_iter_next_swapped(
                     Append(Append(popped, top.left), top.right), cur, md)
            ELSE rope_iter_next_swapped(popped, leaf_iter_from(md, top.rcs),
                                        md)

\* RopeIter::next: the stack's top is its last element
RECURSIVE rope_iter_next(_, _, _)
rope_iter_next(stk, cur, md) ==
    IF cur.some /\ cur.rest # <<>>
    THEN Item(stk, [some |-> TRUE, rest |-> Tail(cur.rest)], Head(cur.rest))
    ELSE IF stk = <<>> THEN NoItem(stk, cur)
    ELSE LET top == stk[Len(stk)]
             popped == SubSeq(stk, 1, Len(stk) - 1)
         IN IF top.kind = "Node"
            THEN rope_iter_next(Append(Append(popped, top.right), top.left),
                                cur, md)
            ELSE rope_iter_next(popped, leaf_iter_from(md, top.rcs), md)

\* LineIter::next advancing the slice by two lines
line_iter_next_skip(sl) ==
    IF len(sl) = 0
    THEN [some |-> FALSE, item |-> sl, slice |-> sl]
    ELSE [some |-> TRUE,
          item |-> line_slice(sl, Range(Included(0), Excluded(1))),
          slice |-> line_slice(sl, Range(Included(2), Unbounded))]

\* LineIter::next
line_iter_next(sl) ==
    IF len(sl) = 0
    THEN [some |-> FALSE, item |-> sl, slice |-> sl]
    ELSE [some |-> TRUE,
          item |-> line_slice(sl, Range(Included(0), Excluded(1))),
          slice |-> line_slice(sl, Range(Included(1), Unbounded))]

\* ------------------------------------------------- ropes the program builds
Texts(n) == [1..n -> Chars]

\* every rope of length n built from texts with concat
RECURSIVE RopesOfLen(_)
RopesOfLen(n) ==
    {from(t) : t \in Texts(n)}
    \cup UNION {{concat(a, b) : a \in RopesOfLen(i), b \in RopesOfLen(n - i)}
                : i \in 1..(n - 1)}

RopesUpTo(n) == UNION {RopesOfLen(k) : k \in 0..n}

Operands == RopesUpTo(MaxOperandLen)
IterRopes == RopesUpTo(MaxIterLen)
LineRopes == RopesUpTo(MaxLineIterLen)

Bounds(L) == {Unbounded} \cup {Included(b) : b \in 0..L}
                         \cup {Excluded(b) : b \in 0..L}
Ranges(L) == {Range(s, e) : s \in Bounds(L), e \in Bounds(L)}

\* ------------------------------------------------------------------ state
NoRange == Range(Unbounded, Unbounded)
Empty == from(<<>>)

Op(op, pre, arg, idx, n, range, status, num, calls, slices) ==
    [op |-> op, pre |-> pre, arg |-> arg, idx |-> idx, n |-> n,
     range |-> range, status |-> status, num |-> num, calls |-> calls,
     slices |-> slices]

NoOp == Op("none", Empty, Empty, 0, 0, NoRange, "ok", 0, {}, 0)

IterIdle ==
    /\ stack = <<>>
    /\ curriter = None
    /\ mode = "none"
    /\ slice = Empty
    /\ yielded = <<>>
    /\ finished = FALSE

IterUnchanged == UNCHANGED <<stack, curriter, mode, slice, yielded, finished>>

\* no operation is in progress: the caller holds rope and nothing else
Idle == last.op = "none"

Init ==
    /\ rope = Empty
    /\ last = NoOp
    /\ IterIdle

FromText(t) ==
    /\ Idle
    /\ rope' = from(t)
    /\ last' = Op("from", rope, Empty, 0, Len(t), NoRange, "ok", 0, {}, 0)
    /\ IterUnchanged

ConcatRight(o) ==
    /\ Idle
    /\ len(rope) + len(o) <= MaxLen
    /\ rope' = concat(rope, o)
    /\ last' = Op("concat", rope, o, 1, 0, NoRange, "ok", 0, {}, 0)
    /\ IterUnchanged

ConcatLeft(o) ==
    /\ Idle
    /\ len(rope) + len(o) <= MaxLen
    /\ rope' = concat(o, rope)
    /\ last' = Op("concat", rope, o, 0, 0, NoRange, "ok", 0, {}, 0)
    /\ IterUnchanged

CharSubstr(idx, n) ==
    /\ Idle
    /\ idx + n <= len(rope)
    /\ rope' = char_substr(rope, idx, n)
    /\ last' = Op("char_substr", rope, Empty, idx, n, NoRange, "ok", 0,
                  char_substr_calls(rope, idx, n), 0)
    /\ IterUnchanged

\* the bounds of r resolve without underflow to a span inside self
SliceInside(self, r) ==
    /\ char_slice_len(self, r) >= 0
    /\ char_slice_start(r) + char_slice_len(self, r) <= len(self)

CharSlice(r) ==
    /\ Idle
    /\ SliceInside(rope, r)
    /\ rope' = char_slice(rope, r)
    /\ last' = Op("char_slice", rope, Empty, 0, 0, r, "ok", 0, {}, 0)
    /\ IterUnchanged

LineStart(lnum) ==
    /\ Idle
    /\ rope' = rope
    /\ last' = Op("line_start", rope, Empty, lnum, 0, NoRange, "ok",
                  line_start(rope, lnum), {}, 0)
    /\ IterUnchanged

LineSlice(r) ==
    /\ Idle
    /\ SliceInside(rope, line_slice_range(rope, r))
    /\ rope' = line_slice(rope, r)
    /\ last' = Op("line_slice", rope, Empty, 0, 0, r, "ok", 0, {}, 0)
    /\ IterUnchanged

Insert(idx, o) ==
    /\ Idle
    /\ idx <= len(rope)
    /\ len(rope) + len(o) <= MaxLen
    /\ rope' = insert(rope, idx, o)
    /\ last' = Op("insert", rope, o, idx, 0, NoRange, "ok", 0, {}, 0)
    /\ IterUnchanged

\* the bounds delete is defined on: lo <= hi <= len, hi < len when inclusive
DeleteInside(self, r) ==
    LET lo == IF r.start.kind = "Unbounded" THEN 0 ELSE r.start.b
    IN /\ r.end.kind = "Included" => lo <= r.end.b /\ r.end.b < len(self)
       /\ r.end.kind = "Excluded" => lo <= r.end.b /\ r.end.b <= len(self)
       /\ r.end.kind = "Unbounded" => lo <= len(self)

Delete(r) ==
    /\ Idle
    /\ DeleteInside(rope, r)
    /\ LET d == delete(rope, r)
       IN /\ rope' = IF d.status = "ok" THEN d.rope ELSE rope
          /\ last' = Op("delete", rope, Empty, 0, 0, r, d.status, 0, {},
                        d.slices)
    /\ IterUnchanged

\* the call is over: its arguments and the receiver it was made on are
\* dropped, the caller keeps the rope it now holds
Drop ==
    /\ ~Idle
    /\ last' = NoOp
    /\ UNCHANGED rope
    /\ IterUnchanged

Next ==
    \/ Drop
    \/ \E t \in UNION {Texts(k) : k \in 0..MaxLen} : FromText(t)
    \/ \E o \in Operands : ConcatRight(o)
    \/ \E o \in Operands : ConcatLeft(o)
    \/ \E idx \in 0..MaxLen, n \in 0..MaxLen : CharSubstr(idx, n)
    \/ \E r \in Ranges(MaxLen) : CharSlice(r)
    \/ \E lnum \in 0..MaxLine : LineStart(lnum)
    \/ \E r \in Ranges(MaxLine) : LineSlice(r)
    \/ \E idx \in 0..MaxLen, o \in Operands : Insert(idx, o)
    \/ \E r \in Ranges(MaxLen) : Delete(r)

Spec == Init /\ [][Next]_vars

\* ------------------------------------------- str_iter / char_iter traversal
InitIter ==
    /\ rope \in IterRopes
    /\ last = NoOp
    /\ mode \in {"str", "char"}
    /\ stack = <<rope>>
    /\ curriter = None
    /\ slice = Empty
    /\ yielded = <<>>
    /\ finished = FALSE

RopeIterNext ==
    /\ mode \in {"str", "char"}
    /\ ~finished
    /\ LET nx == rope_iter_next(stack, curriter, mode)
       IN /\ stack' = nx.stack
          /\ curriter' = nx.curriter
          /\ yielded' = IF nx.some THEN Append(yielded, nx.item) ELSE yielded
          /\ finished' = ~nx.some
    /\ UNCHANGED <<rope, last, mode, slice>>

NextIter == RopeIterNext

SpecIter == InitIter /\ [][NextIter]_vars

\* ----------------------------------------------------- line_iter traversal
InitLine ==
    /\ rope \in LineRopes
    /\ last = NoOp
    /\ mode = "line"
    /\ stack = <<>>
    /\ curriter = None
    /\ slice = rope
    /\ yielded = <<>>
    /\ finished = FALSE

LineIterNext ==
    /\ mode = "line"
    /\ ~finished
    /\ LET nx == line_iter_next(slice)
       IN /\ slice' = nx.slice
          /\ yielded' = IF nx.some THEN Append(yielded, nx.item) ELSE yielded
          /\ finished' = ~nx.some
    /\ UNCHANGED <<rope, last, mode, stack, curriter>>

NextLine == LineIterNext

\* the consumer's loop calls next until it returns None
SpecLine == InitLine /\ [][NextLine]_vars /\ WF_vars(LineIterNext)

\* ============================================================ properties
\* the text a rope stands for, read off the tree
RECURSIVE Flat(_)
Flat(rp) ==
    IF rp.kind = "Node" THEN Flat(rp.left) \o Flat(rp.right) ELSE rp.rcs

\* the texts of the leaves, left to right
RECURSIVE Leaves(_)
Leaves(rp) ==
    IF rp.kind = "Node" THEN Leaves(rp.left) \o Leaves(rp.right)
    ELSE <<rp.rcs>>

RECURSIVE JoinAll(_)
JoinAll(ss) == IF ss = <<>> THEN <<>> ELSE Head(ss) \o JoinAll(Tail(ss))

\* the units of t at the offsets in [lo, hi)
Span(t, lo, hi) == SubSeq(t, lo + 1, hi)

\* the offset right after the k-th newline of t, the length of t when it
\* has fewer than k newlines
AfterNewline(t, k) ==
    IF k = 0 THEN 0
    ELSE IF Cardinality({q \in 1..Len(t) : t[q] = NL}) < k THEN Len(t)
    ELSE CHOOSE p \in 1..Len(t) :
           /\ t[p] = NL
           /\ Cardinality({q \in 1..p : t[q] = NL}) = k

\* no node has a child of zero length
RECURSIVE NoEmptyChild(_)
NoEmptyChild(rp) ==
    rp.kind = "Node" =>
        /\ Len(Flat(rp.left)) > 0
        /\ Len(Flat(rp.right)) > 0
        /\ NoEmptyChild(rp.left)
        /\ NoEmptyChild(rp.right)

\* C1: char_substr(idx, n) with idx + n <= len() returns a rope whose content
\* is exactly the n units of the flattened text starting at offset idx.
C1_CharSubstrContent ==
    last.op = "char_substr" =>
        Flat(rope) = Span(Flat(last.pre), last.idx, last.idx + last.n)

\* a request straddling the boundary of a node whose left child is a node
C1_Witness ==
    /\ last.op = "char_substr"
    /\ last.pre.kind = "Node"
    /\ last.pre.left.kind = "Node"
    /\ 0 < last.idx
    /\ last.idx < last.pre.leftn
    /\ last.idx + last.n > last.pre.leftn

\* C2: the content of r.insert(idx, s) is the first idx units of r, then the
\* content of s, then the remaining units of r.
C2_InsertContent ==
    last.op = "insert" =>
        Flat(rope) = Span(Flat(last.pre), 0, last.idx)
                     \o Flat(last.arg)
                     \o Span(Flat(last.pre), last.idx, Len(Flat(last.pre)))

\* an insertion of a non-empty rope inside a node, the left slice the longer
C2_Witness ==
    /\ last.op = "insert"
    /\ last.pre.kind = "Node"
    /\ Len(Flat(last.arg)) > 0
    /\ last.idx < Len(Flat(last.pre))
    /\ last.idx > Len(Flat(last.pre)) - last.idx

\* C3: for every supported range within r, the content of r.delete(range) is
\* the content of r without the units at the offsets in the range; delete(..)
\* yields the empty rope.
C3_DeleteContent ==
    (last.op = "delete" /\ last.range.start.kind # "Excluded") =>
        LET t == Flat(last.pre)
            lo == IF last.range.start.kind = "Unbounded" THEN 0
                  ELSE last.range.start.b
            hi == IF last.range.end.kind = "Unbounded" THEN Len(t)
                  ELSE IF last.range.end.kind = "Included"
                       THEN last.range.end.b + 1
                  ELSE last.range.end.b
        IN /\ last.status = "ok"
           /\ Flat(rope) = Span(t, 0, lo) \o Span(t, hi, Len(t))
           /\ (last.range = NoRange => Flat(rope) = <<>>)

\* an interior inclusive range deleted from a node: both slices survive
C3_Witness ==
    /\ last.op = "delete"
    /\ last.pre.kind = "Node"
    /\ last.range.start.kind = "Included"
    /\ last.range.end.kind = "Included"
    /\ last.range.start.b > 0
    /\ last.range.end.b + 1 < Len(Flat(last.pre))
    /\ last.status = "ok"

\* C4: line_start(k) is the offset right after the k-th newline of the
\* flattened text (0 for k = 0), and len() when there are fewer than k
\* newlines, whatever the shape of the tree.
C4_LineStartOffset ==
    last.op = "line_start" =>
        last.num = AfterNewline(Flat(last.pre), last.idx)

\* the k-th newline is the last unit of the left subtree
C4_Witness ==
    /\ last.op = "line_start"
    /\ last.pre.kind = "Node"
    /\ last.idx >= 1
    /\ last.idx = last.pre.leftnnl
    /\ Flat(last.pre.left)[last.pre.leftn] = NL
    /\ last.num = last.pre.leftn

\* C6: delete with an excluded-start bound fails for every end bound: it
\* returns no rope and computes no slice.
C6_DeleteExcludedFails ==
    (last.op = "delete" /\ last.range.start.kind = "Excluded") =>
        /\ last.status = "panic"
        /\ last.slices = 0
        /\ rope = last.pre

C6_Witness ==
    /\ last.op = "delete"
    /\ last.range.start.kind = "Excluded"
    /\ last.range.end.kind = "Included"
    /\ last.pre.kind = "Node"
    /\ last.status = "panic"

\* C8: no internal node of a rope the operations produce has a child of zero
\* length, so a zero-length rope is a single leaf.
C8_NoEmptyChild ==
    /\ NoEmptyChild(rope)
    /\ (Len(Flat(rope)) = 0 => rope.kind = "Leaf")

\* a delete whose left slice is empty, and an insert at offset 0
C8_Witness ==
    /\ last.op = "delete"
    /\ last.range.start = Included(0)
    /\ last.range.end.kind = "Excluded"
    /\ rope.kind = "Node"

\* C9: on a straddling request the left child is asked for leftn - idx units
\* at idx and the right child for n - (leftn - idx) units at 0, and every call
\* char_substr makes satisfies start + length <= length of its callee.
C9_CallsInside ==
    last.op = "char_substr" =>
        \A c \in last.calls :
            /\ c.case = "straddle_left" =>
                   c.idx = c.pidx /\ c.n = c.pleftn - c.pidx
            /\ c.case = "straddle_right" =>
                   c.idx = 0 /\ c.n = c.pn - (c.pleftn - c.pidx)
            /\ c.idx + c.n <= c.len

\* C10: in r.insert(idx, s) with s, left and right non-empty and left, right
\* of different lengths, s is first concatenated with the longer of left and
\* right, the shorter being the other operand of the outer concat.
InsertUneven ==
    /\ last.op = "insert"
    /\ Len(Flat(last.arg)) > 0
    /\ 0 < last.idx
    /\ last.idx < Len(Flat(last.pre))
    /\ last.idx # Len(Flat(last.pre)) - last.idx

\* the root is concat(concat(left, s), right)
InnerWithLeft ==
    /\ rope.kind = "Node"
    /\ rope.left.kind = "Node"
    /\ Flat(rope.left.left) = Span(Flat(last.pre), 0, last.idx)
    /\ rope.left.right = last.arg
    /\ Flat(rope.right) = Span(Flat(last.pre), last.idx, Len(Flat(last.pre)))

\* the root is concat(left, concat(s, right))
InnerWithRight ==
    /\ rope.kind = "Node"
    /\ rope.right.kind = "Node"
    /\ Flat(rope.left) = Span(Flat(last.pre), 0, last.idx)
    /\ rope.right.left = last.arg
    /\ Flat(rope.right.right) =
           Span(Flat(last.pre), last.idx, Len(Flat(last.pre)))

C10_InnerWithLonger ==
    InsertUneven =>
        IF last.idx > Len(Flat(last.pre)) - last.idx
        THEN InnerWithLeft ELSE InnerWithRight

\* C10 as the code has it: s is first concatenated with the shorter of left
\* and right, the longer being the other operand of the outer concat.
C10_InnerWithShorter ==
    InsertUneven =>
        IF last.idx > Len(Flat(last.pre)) - last.idx
        THEN InnerWithRight ELSE InnerWithLeft

C10_Witness ==
    /\ InsertUneven
    /\ last.idx > Len(Flat(last.pre)) - last.idx
    /\ last.pre.kind = "Node"
    /\ InnerWithRight

\* what a traversal of rp yields: the leaves' texts, or the units
IterItems(rp, md) == IF md = "str" THEN Leaves(rp) ELSE Flat(rp)

\* what the ropes still on the stack will yield, the top first
RECURSIVE StackItems(_, _)
StackItems(stk, md) ==
    IF stk = <<>> THEN <<>>
    ELSE IterItems(stk[Len(stk)], md)
         \o StackItems(SubSeq(stk, 1, Len(stk) - 1), md)

\* C7: the stack traversal visits every leaf once, left to right: what was
\* yielded, then the rest of the current leaf, then the stack from its top,
\* is the traversal of the whole rope; it ends with the stack empty and the
\* leaf drained, and then returns end-of-sequence.
C7_TraversalInOrder ==
    mode \in {"str", "char"} =>
        /\ yielded \o curriter.rest \o StackItems(stack, mode)
               = IterItems(rope, mode)
        /\ (finished => stack = <<>> /\ curriter.rest = <<>>)
        /\ (finished => yielded = IterItems(rope, mode))
        /\ ((stack = <<>> /\ curriter.rest = <<>>) =>
               ~rope_iter_next(stack, curriter, mode).some)

\* a finished chunk traversal of a tree nested on both sides of the root
C7_Witness ==
    /\ mode = "str"
    /\ finished
    /\ rope.kind = "Node"
    /\ rope.left.kind = "Node"
    /\ rope.right.kind = "Node"
    /\ Len(yielded) = 4

\* the texts of the ropes the line traversal yielded
YieldedLines == [i \in 1..Len(yielded) |-> Flat(yielded[i])]

\* l has no newline before its last unit
OneLine(l) == \A j \in 1..(Len(l) - 1) : l[j] # NL

LinesSplit ==
    LET t == Flat(rope)
        ls == YieldedLines
        k == Len(ls)
    IN /\ \A i \in 1..k : ls[i] # <<>> /\ OneLine(ls[i])
       /\ \A i \in 1..(k - 1) : ls[i][Len(ls[i])] = NL
       /\ (k > 0 => (ls[k][Len(ls[k])] # NL <=> t[Len(t)] # NL))
       /\ JoinAll(ls) = t
       /\ (t = <<>> => k = 0)

\* C5: the line traversal ends, and what it yielded is the flattened text
\* split after each newline: non-empty lines, each but possibly the last
\* ending with its only newline, which concatenated give back the rope.
C5_LineIterSplits == <>(mode = "line" /\ finished /\ LinesSplit)

\* a finished traversal of a node holding three lines, the last unterminated
C5_Witness ==
    /\ mode = "line"
    /\ finished
    /\ rope.kind = "Node"
    /\ Len(yielded) = 3
    /\ Flat(rope)[Len(Flat(rope))] # NL

====
